---- MODULE Spec2Model ----
(***************************************************************************)
(* Model of mvandcrash (src/src/main.rs): a write-load generator of        *)
(* `concurrency` tokio tasks sharing one AtomicBool stop flag, and the     *)
(* orchestrator main() that stops them, waits, and then repeatedly         *)
(* compares the base table with each node's materialized view.             *)
(*                                                                         *)
(* The model is asynchronous: a timer (tick, backoff sleep, main's sleep)   *)
(* completes at some time not before its deadline, a write attempt in      *)
(* flight completes at any time.  Elapsed time is kept only as the lower   *)
(* bound that a fiber's completed backoff sleeps prove.  The AtomicBool is *)
(* modelled as one memory cell.  The database answers Err only to attempts *)
(* of one write (fiber, iteration) per run, chosen freely; each of that    *)
(* write's attempts may fail or succeed, applied or not.                   *)
(***************************************************************************)
EXTENDS Integers, Sequences, FiniteSets, Bags, TLC

\* ---------------------------------------------------------------- bounds
MaxWorkers == 2      \* worker counts 1..MaxWorkers are explored
MaxIter == 2         \* a worker starts at most this many write iterations
MaxMissing == 1      \* rows of the base table a node's view may lack
MaxRows == 3         \* snapshot harness: longest scan delivered
MaxBack == 2         \* value harness: iterations explored on either side of
                     \* the first one whose product leaves the i32 range

\* ------------------------------------------------------ program constants
frequency_interval == 100
tries_num == 8
BackoffMs == 64
NumNodes == 5
ProgramConcurrency == 512

VARIABLES
    concurrency,   \* number of spawned fibers
    process,       \* "running" | "exited"
    should_stop,   \* the shared AtomicBool
    pc,            \* per fiber: position in the task body
    i,             \* per fiber: loop variable of `for i in 0..`
    value,         \* per fiber: value of the current iteration
    try_number,    \* per fiber: loop variable of `for try_number in 1..`
    table,         \* view_test.tab: bag of rows <<p, c, r>>
    faulty,        \* the writes <<id, iter>> whose attempts may fail
    reapplied,     \* history: an insert was applied to a key already present
    issued,        \* history: [id, iter, value] of every write a fiber began
    hist,          \* history, per fiber: observations of its write attempts
    main_pc,       \* position of main()
    base_rows,     \* main: the pass's base snapshot
    node_id,       \* main: index of the node the pass is at
    report,        \* the last per-node message printed
    reported,      \* history: node ids reported in the current pass, in order
    exit_cause,    \* why the process exited ("" while it runs)
    h_pc,          \* snapshot harness: "in" | "read" | "compared"
    in_base,       \* snapshot harness: rows as a base scan delivers them
    in_view,       \* snapshot harness: rows as a view scan delivers them
    out_base,      \* snapshot harness: read_all of in_base
    out_view,      \* snapshot harness: read_all of in_view
    out_report,    \* snapshot harness: the message for out_base, out_view
    h_id,          \* value harness: the fiber's id
    h_i,           \* value harness: the fiber's loop variable i
    h_value,       \* value harness: outcome of `id + i * concurrency`
    h_prev         \* value harness: outcome of the iteration before

wvars == <<pc, i, value, try_number, issued, hist>>
dbvars == <<table, faulty, reapplied>>
mvars == <<main_pc, base_rows, node_id, report, reported>>
vhvars == <<h_id, h_i, h_value, h_prev>>
hvars == <<h_pc, in_base, in_view, out_base, out_view, out_report, vhvars>>
vars == <<concurrency, process, exit_cause, should_stop,
          wvars, dbvars, mvars, hvars>>

Ids == 0 .. (MaxWorkers - 1)
Workers == 0 .. (concurrency - 1)

\* --------------------------------------------------------- i32 arithmetic
MaxI32 == 2147483647
MinI32 == (-MaxI32) - 1

\* a + b in i32, wrapping on overflow
WrapAdd(a, b) ==
    IF a > 0 /\ b > 0 /\ a > MaxI32 - b THEN (a + MinI32) + (b + MinI32)
    ELSE IF a < 0 /\ b < 0 /\ a < MinI32 - b THEN (a - MinI32) + (b - MinI32)
    ELSE a + b

\* a * b in i32 for b >= 0, wrapping on overflow
RECURSIVE WrapMul(_, _)
WrapMul(a, b) ==
    IF b = 0 THEN 0
    ELSE LET h == WrapMul(a, b \div 2)
             d == WrapAdd(h, h)
         IN  IF b % 2 = 1 THEN WrapAdd(d, a) ELSE d

\* Value with the stride one too large
ValueStridePlusOne(id, iter) == WrapAdd(id, WrapMul(iter, concurrency + 1))

\* Value without the stride
ValueNoStride(id, iter) == WrapAdd(id, iter)

\* let value = id + i * concurrency;
Value(id, iter) == WrapAdd(id, WrapMul(iter, concurrency))

\* ------------------------------------------------------------ the table
Key(row) == <<row[1], row[2]>>

\* Insert as an append that ignores the primary key
InsertAppend(tab, row) == tab (+) SetToBag({row})

\* INSERT INTO view_test.tab (p, c, r) with primary key (p, c): an upsert.
Insert(tab, row) ==
    LET others == { x \in BagToSet(tab) : Key(x) # Key(row) }
        kept == [ x \in others |-> tab[x] ]
    IN  kept (+) SetToBag({row})

\* Row with the regular column left at zero
RowPayloadZero(v) == <<v, v, 0>>

\* the values bound by execute(&insert, (value, value, value))
Row(v) == <<v, v, v>>

HasKey(tab, row) == \E x \in BagToSet(tab) : Key(x) = Key(row)

\* --------------------------------------------------------------- fibers
\* History of one fiber, of its current iteration: attempts sent, backoff
\* sleeps completed and their total length.  since_stop: the time that its
\* completed backoff sleeps prove to have passed since stop().
NoHist == [attempts |-> 0, sleeps |-> 0, slept_ms |-> 0,
           sleep_after_stop |-> FALSE, since_stop |-> 0]

\* ShouldReturn with the flag ignored
ShouldReturnNever(flag) == FALSE

\* if should_stop.load(Ordering::Relaxed) { return; }
ShouldReturn(flag) == flag

\* RetryPolicy with the comparison off by one
RetryPolicyOffByOne(try) == IF try <= tries_num THEN "retry" ELSE "fail"

\* Err(_) if try_number < tries_num => sleep, Err(_) => unwrap
RetryPolicy(try) == IF try < tries_num THEN "retry" ELSE "fail"

\* session.execute(&insert, (value, value, value)) is called: history h of
\* the calling fiber after the call
Execute(h) == [h EXCEPT !.attempts = @ + 1]

\* interval.tick().await completes
Tick(w) ==
    /\ process = "running"
    /\ pc[w] = "tick"
    /\ i[w] < MaxIter \/ should_stop
    /\ pc' = [pc EXCEPT ![w] = "check"]
    /\ UNCHANGED <<concurrency, process, exit_cause, should_stop,
                   i, value, try_number, issued, hist, dbvars, mvars, hvars>>

\* CheckStop with the set flag sending the fiber back to its tick
CheckStopKeepsTicking(w) ==
    /\ process = "running"
    /\ pc[w] = "check"
    /\ IF ShouldReturn(should_stop)
       THEN /\ pc' = [pc EXCEPT ![w] = "tick"]
            /\ UNCHANGED <<value, try_number, issued, hist>>
       ELSE /\ pc' = [pc EXCEPT ![w] = "execute"]
            /\ value' = [value EXCEPT ![w] = Value(w, i[w])]
            /\ try_number' = [try_number EXCEPT ![w] = 1]
            /\ issued' = issued \cup
                   {[id |-> w, iter |-> i[w], value |-> Value(w, i[w])]}
            /\ hist' = [hist EXCEPT ![w] = Execute(@)]
    /\ UNCHANGED <<concurrency, process, exit_cause, should_stop,
                   i, dbvars, mvars, hvars>>

\* The flag is loaded; the fiber returns, or computes the value and sends
\* the first attempt.
CheckStop(w) ==
    /\ process = "running"
    /\ pc[w] = "check"
    /\ IF ShouldReturn(should_stop)
       THEN /\ pc' = [pc EXCEPT ![w] = "stopped"]
            /\ UNCHANGED <<value, try_number, issued, hist>>
       ELSE /\ pc' = [pc EXCEPT ![w] = "execute"]
            /\ value' = [value EXCEPT ![w] = Value(w, i[w])]
            /\ try_number' = [try_number EXCEPT ![w] = 1]
            /\ issued' = issued \cup
                   {[id |-> w, iter |-> i[w], value |-> Value(w, i[w])]}
            /\ hist' = [hist EXCEPT ![w] = Execute(@)]
    /\ UNCHANGED <<concurrency, process, exit_cause, should_stop,
                   i, dbvars, mvars, hvars>>

\* Ok(_) => break: the insert was applied, the fiber goes to its next tick.
ExecuteOk(w) ==
    /\ process = "running"
    /\ pc[w] = "execute"
    /\ table' = Insert(table, Row(value[w]))
    /\ reapplied' = (reapplied \/ HasKey(table, Row(value[w])))
    /\ i' = [i EXCEPT ![w] = @ + 1]
    /\ pc' = [pc EXCEPT ![w] = "tick"]
    /\ try_number' = [try_number EXCEPT ![w] = 0]
    /\ hist' = [hist EXCEPT ![w] = NoHist]
    /\ UNCHANGED <<concurrency, process, exit_cause, should_stop,
                   value, issued, faulty, mvars, hvars>>

\* ExecuteErr giving the value up and moving on to the next iteration
ExecuteErrSkips(w, applied, abort) ==
    /\ process = "running"
    /\ pc[w] = "execute"
    /\ <<w, i[w]>> \in faulty
    /\ ~abort
    /\ table' = IF applied THEN Insert(table, Row(value[w])) ELSE table
    /\ reapplied' = (reapplied \/ (applied /\ HasKey(table, Row(value[w]))))
    /\ i' = [i EXCEPT ![w] = @ + 1]
    /\ pc' = [pc EXCEPT ![w] = "tick"]
    /\ try_number' = [try_number EXCEPT ![w] = 0]
    /\ hist' = [hist EXCEPT ![w] = NoHist]
    /\ UNCHANGED <<concurrency, process, exit_cause, should_stop, value,
                   issued, faulty, mvars, hvars>>

\* Err(_): the attempt is answered with an error, whether or not the
\* database applied it.  Below tries_num the fiber sleeps the backoff; at
\* tries_num result.unwrap() panics: the task ends, and the process with it
\* when the build aborts on panic.
ExecuteErr(w, applied, abort) ==
    /\ process = "running"
    /\ pc[w] = "execute"
    /\ <<w, i[w]>> \in faulty
    /\ table' = IF applied THEN Insert(table, Row(value[w])) ELSE table
    /\ reapplied' = (reapplied \/ (applied /\ HasKey(table, Row(value[w]))))
    /\ IF RetryPolicy(try_number[w]) = "retry"
       THEN /\ ~abort
            /\ pc' = [pc EXCEPT ![w] = "sleep"]
            /\ hist' = [hist EXCEPT ![w].sleep_after_stop = should_stop]
            /\ UNCHANGED <<process, exit_cause>>
       ELSE /\ pc' = [pc EXCEPT ![w] = "panicked"]
            /\ UNCHANGED hist
            /\ process' = IF abort THEN "exited" ELSE "running"
            /\ exit_cause' = IF abort THEN "write_failed" ELSE exit_cause
    /\ UNCHANGED <<concurrency, should_stop, i, value, try_number, issued,
                   faulty, mvars, hvars>>

\* WakeUp with the retry carrying the fiber's next value
WakeUpNextValue(w) ==
    /\ process = "running"
    /\ pc[w] = "sleep"
    /\ pc' = [pc EXCEPT ![w] = "execute"]
    /\ try_number' = [try_number EXCEPT ![w] = @ + 1]
    /\ value' = [value EXCEPT ![w] = WrapAdd(@, concurrency)]
    /\ hist' = [hist EXCEPT
           ![w] = Execute([@ EXCEPT
                      !.sleeps = @ + 1,
                      !.slept_ms = @ + BackoffMs,
                      !.since_stop = IF hist[w].sleep_after_stop
                                     THEN @ + BackoffMs ELSE @,
                      !.sleep_after_stop = FALSE])]
    /\ UNCHANGED <<concurrency, process, exit_cause, should_stop,
                   i, issued, dbvars, mvars, hvars>>

\* tokio::time::sleep(64 ms) completes: the next attempt is sent.
WakeUp(w) ==
    /\ process = "running"
    /\ pc[w] = "sleep"
    /\ pc' = [pc EXCEPT ![w] = "execute"]
    /\ try_number' = [try_number EXCEPT ![w] = @ + 1]
    /\ hist' = [hist EXCEPT
           ![w] = Execute([@ EXCEPT
                      !.sleeps = @ + 1,
                      !.slept_ms = @ + BackoffMs,
                      !.since_stop = IF hist[w].sleep_after_stop
                                     THEN @ + BackoffMs ELSE @,
                      !.sleep_after_stop = FALSE])]
    /\ UNCHANGED <<concurrency, process, exit_cause, should_stop,
                   i, value, issued, dbvars, mvars, hvars>>

\* ------------------------------------------------------ snapshot reader
\* RowLess comparing the partition key only
RowLessByPartition(a, b) == a[1] < b[1]

\* Ord of (i32, i32, i32): lexicographic
RowLess(a, b) ==
    \/ a[1] < b[1]
    \/ a[1] = b[1] /\ a[2] < b[2]
    \/ a[1] = b[1] /\ a[2] = b[2] /\ a[3] < b[3]

RECURSIVE InsertSorted(_, _)
InsertSorted(row, s) ==
    IF s = <<>> THEN <<row>>
    ELSE IF RowLess(row, Head(s)) THEN <<row>> \o s
    ELSE <<Head(s)>> \o InsertSorted(row, Tail(s))

\* rows.sort(): a stable sort, here by insertion from the left
RECURSIVE SortRows(_)
SortRows(rows) ==
    IF rows = <<>> THEN <<>>
    ELSE InsertSorted(rows[Len(rows)], SortRows(SubSeq(rows, 1, Len(rows) - 1)))

\* read_all_rows_from_table, given the rows the scan yields in order:
\* every row is pushed, then the vector is sorted.
read_all_rows_from_table(scan) == SortRows(scan)

\* Compare deciding by the lengths alone
CompareByLength(node, base, view) ==
    IF Len(view) = Len(base)
    THEN [kind |-> "match", node |-> node]
    ELSE [kind |-> "mismatch", node |-> node,
          base_len |-> Len(base), view_len |-> Len(view)]

\* if view_rows == base_rows { match message } else { two error messages }
Compare(node, base, view) ==
    IF view = base
    THEN [kind |-> "match", node |-> node]
    ELSE [kind |-> "mismatch", node |-> node,
          base_len |-> Len(base), view_len |-> Len(view)]

\* ------------------------------------------------- what a scan delivers
RECURSIVE Ascending(_)
Ascending(B) ==
    IF BagToSet(B) = {} THEN <<>>
    ELSE LET x == CHOOSE y \in BagToSet(B) :
                     \A z \in BagToSet(B) : ~RowLess(z, y)
         IN  <<x>> \o Ascending(B (-) SetToBag({x}))

Reverse(s) == [k \in 1 .. Len(s) |-> s[Len(s) + 1 - k]]

\* The rows of bag B in one of the storage orders explored.
Scans(B) == {Ascending(B), Reverse(Ascending(B))}

\* A node's view holds the base rows but for at most MaxMissing of them.
ViewContents(B) ==
    { V \in SubBag(B) : BagCardinality(B) - BagCardinality(V) <= MaxMissing }

\* ----------------------------------------------------------------- main
\* let writes_stopper = start_writes(&session).await: the fibers are spawned
start_writes ==
    /\ process = "running"
    /\ main_pc = "start"
    /\ pc' = [w \in Ids |-> IF w \in Workers THEN "tick" ELSE pc[w]]
    /\ main_pc' = "stdin"
    /\ UNCHANGED <<concurrency, process, exit_cause, should_stop,
                   i, value, try_number, issued, hist, dbvars,
                   base_rows, node_id, report, reported, hvars>>

\* StoreStop leaving the flag as it is
StoreStopNoop(flag) == flag

\* WritesStopper::stop: self.should_stop.store(true, Ordering::Relaxed)
StoreStop(flag) == TRUE

\* read_line returns; writes_stopper.stop(); sleep(60 s) is begun
stop ==
    /\ process = "running"
    /\ main_pc = "stdin"
    /\ should_stop' = StoreStop(should_stop)
    /\ main_pc' = "settle"
    /\ UNCHANGED <<concurrency, process, exit_cause, wvars, dbvars,
                   base_rows, node_id, report, reported, hvars>>

\* BeginPass not waiting for the Enter key and stop()
BeginPassBeforeStop ==
    /\ process = "running"
    /\ main_pc \in {"stdin", "settle", "pass_sleep"}
    /\ main_pc' = "read_base"
    /\ report' = [kind |-> "verifying"]
    /\ reported' = <<>>
    /\ UNCHANGED <<concurrency, process, exit_cause, should_stop,
                   wvars, dbvars, base_rows, node_id, hvars>>

\* a sleep(60 s) of main completes, after stop() or at the end of a pass:
\* the next turn of `loop` begins
BeginPass ==
    /\ process = "running"
    /\ main_pc \in {"settle", "pass_sleep"}
    /\ main_pc' = "read_base"
    /\ report' = [kind |-> "verifying"]
    /\ reported' = <<>>
    /\ UNCHANGED <<concurrency, process, exit_cause, should_stop,
                   wvars, dbvars, base_rows, node_id, hvars>>

\* ReadFailed with the failure noted and main left running
ReadFailedIgnored ==
    /\ exit_cause' = "read_failed"
    /\ UNCHANGED <<concurrency, process, should_stop, wvars, dbvars, mvars,
                   hvars>>

\* an unwrap() in read_all_rows_from_table panics in main
ReadFailed ==
    /\ process' = "exited"
    /\ exit_cause' = "read_failed"
    /\ UNCHANGED <<concurrency, should_stop, wvars, dbvars, mvars, hvars>>

\* let base_rows = read_all_rows_from_table(&session, "tab").await
ReadBase ==
    /\ process = "running"
    /\ main_pc = "read_base"
    /\ \/ \E scan \in Scans(table) :
             /\ base_rows' = read_all_rows_from_table(scan)
             /\ node_id' = 0
             /\ main_pc' = "read_view"
             /\ UNCHANGED <<concurrency, process, exit_cause, should_stop,
                            wvars, dbvars, report, reported, hvars>>
       \/ ReadFailed

\* AfterReport leaving the loop on a mismatch
AfterReportStopOnMismatch(rep, node) ==
    IF rep.kind = "mismatch" THEN "done"
    ELSE IF node + 1 < NumNodes THEN "read_view" ELSE "pass_sleep"

\* where main goes after printing message rep about node
AfterReport(rep, node) ==
    IF node + 1 < NumNodes THEN "read_view" ELSE "pass_sleep"

\* CheckNode reading the base table anew for every node
CheckNodeRereadsBase ==
    /\ process = "running"
    /\ main_pc = "read_view"
    /\ \/ \E V \in ViewContents(table) : \E scan \in Scans(V) :
             LET fresh == read_all_rows_from_table(Ascending(table))
                 view_rows == read_all_rows_from_table(scan)
                 rep == Compare(node_id, fresh, view_rows) IN
             /\ base_rows' = fresh
             /\ report' = rep
             /\ reported' = Append(reported, node_id)
             /\ node_id' = node_id + 1
             /\ main_pc' = AfterReport(rep, node_id)
             /\ UNCHANGED <<concurrency, process, exit_cause, should_stop,
                            wvars, dbvars, hvars>>
       \/ ReadFailed

\* One turn of `for (node_id, single_node_session) in node_sessions`: the
\* node's view is read and compared, the message printed; after the last
\* node the sleep(60 s) before the next pass is begun.
CheckNode ==
    /\ process = "running"
    /\ main_pc = "read_view"
    /\ \/ \E V \in ViewContents(table) : \E scan \in Scans(V) :
             LET view_rows == read_all_rows_from_table(scan)
                 rep == Compare(node_id, base_rows, view_rows) IN
             /\ report' = rep
             /\ reported' = Append(reported, node_id)
             /\ node_id' = node_id + 1
             /\ main_pc' = AfterReport(rep, node_id)
             /\ UNCHANGED <<concurrency, process, exit_cause, should_stop,
                            wvars, dbvars, base_rows, hvars>>
       \/ ReadFailed

\* ----------------------------------------------------------------- spec
NoReport == [kind |-> "none"]

NoValue == [kind |-> "none"]

Writes == Ids \X (0 .. (MaxIter - 1))

Quiet ==
    /\ process = "running"
    /\ exit_cause = ""
    /\ should_stop = FALSE
    /\ pc = [w \in Ids |-> "unspawned"]
    /\ i = [w \in Ids |-> 0]
    /\ value = [w \in Ids |-> 0]
    /\ try_number = [w \in Ids |-> 0]
    /\ table = EmptyBag
    /\ issued = {}
    /\ hist = [w \in Ids |-> NoHist]
    /\ reapplied = FALSE
    /\ main_pc = "start"
    /\ base_rows = <<>>
    /\ report = NoReport
    /\ reported = <<>>

NoHarness ==
    /\ h_pc = "off"
    /\ in_base = <<>>
    /\ in_view = <<>>
    /\ out_base = <<>>
    /\ out_view = <<>>
    /\ out_report = NoReport
    /\ h_id = 0
    /\ h_i = 0
    /\ h_value = NoValue
    /\ h_prev = NoValue

Init ==
    /\ Quiet
    /\ node_id = 0
    /\ concurrency \in 1 .. MaxWorkers
    /\ faulty \in {{}} \cup { {wr} : wr \in Writes }
    /\ NoHarness

Fibers ==
    \/ \E w \in Workers : Tick(w)
    \/ \E w \in Workers : CheckStop(w)
    \/ \E w \in Workers : ExecuteOk(w)
    \/ \E w \in Workers : \E applied \in BOOLEAN : \E abort \in BOOLEAN :
          ExecuteErr(w, applied, abort)
    \/ \E w \in Workers : WakeUp(w)

Next ==
    \/ start_writes
    \/ stop
    \/ BeginPass
    \/ ReadBase
    \/ CheckNode
    \/ Fibers

\* The whole program.
Spec == Init /\ [][Next]_vars

\* The write-load generator and its stop handle: the program until main's
\* sleep after stop() ends.
NextWrites ==
    \/ start_writes
    \/ stop
    \/ Fibers

SpecWrites == Init /\ [][NextWrites]_vars

\* The generator under the runtime's scheduling: a timer that is due fires,
\* a task that is ready runs, and a write attempt in flight is answered,
\* with Ok or with Err.
Returns(w) ==
    \/ ExecuteOk(w)
    \/ \E applied \in BOOLEAN : \E abort \in BOOLEAN : ExecuteErr(w, applied, abort)

FairWrites ==
    /\ SpecWrites
    /\ \A w \in Ids : WF_vars(Tick(w))
    /\ \A w \in Ids : WF_vars(CheckStop(w))
    /\ \A w \in Ids : WF_vars(WakeUp(w))
    /\ \A w \in Ids : WF_vars(Returns(w))

\* The verification loop from the end of main's sleep after stop(), entered
\* with the fibers returned after completing any number of iterations.
InitSettled ==
    /\ concurrency \in 1 .. MaxWorkers
    /\ \E done \in [Ids -> 0 .. MaxIter] :
          /\ i = [w \in Ids |-> IF w \in Workers THEN done[w] ELSE 0]
          /\ pc = [w \in Ids |-> IF w \in Workers THEN "stopped" ELSE "unspawned"]
          /\ issued = { [id |-> w, iter |-> k, value |-> Value(w, k)] :
                          <<w, k>> \in { wr \in Workers \X (0 .. (MaxIter - 1)) :
                                           wr[2] < done[wr[1]] } }
          /\ value = [w \in Ids |-> IF w \in Workers /\ done[w] > 0
                                    THEN Value(w, done[w] - 1) ELSE 0]
    /\ table = SetToBag({ Row(r.value) : r \in issued })
    /\ faulty = {}
    /\ reapplied = FALSE
    /\ try_number = [w \in Ids |-> 0]
    /\ hist = [w \in Ids |-> NoHist]
    /\ process = "running"
    /\ exit_cause = ""
    /\ should_stop = TRUE
    /\ main_pc = "settle"
    /\ base_rows = <<>>
    /\ node_id = 0
    /\ report = NoReport
    /\ reported = <<>>
    /\ NoHarness

NextChecker ==
    \/ BeginPass
    \/ ReadBase
    \/ CheckNode

SpecChecker == InitSettled /\ [][NextChecker]_vars

\* ----------------------------------------------------- snapshot harness
\* read_all_rows_from_table and the comparison applied to scans drawn from
\* bounded sets of rows, keys and payloads free.
HarnessRows == {<<1, 1, 1>>, <<1, 1, 2>>, <<1, 2, 1>>, <<2, 2, 2>>}

SeqsUpTo(S, n) == UNION { [1 .. k -> S] : k \in 0 .. n }

InitRead ==
    /\ Quiet
    /\ concurrency = 1
    /\ faulty = {}
    /\ node_id \in 0 .. (NumNodes - 1)
    /\ h_pc = "in"
    /\ in_base \in SeqsUpTo(HarnessRows, MaxRows)
    /\ in_view \in SeqsUpTo(HarnessRows, MaxRows)
    /\ out_base = <<>>
    /\ out_view = <<>>
    /\ out_report = NoReport
    /\ h_id = 0
    /\ h_i = 0
    /\ h_value = NoValue
    /\ h_prev = NoValue

HarnessRead ==
    /\ h_pc = "in"
    /\ out_base' = read_all_rows_from_table(in_base)
    /\ out_view' = read_all_rows_from_table(in_view)
    /\ h_pc' = "read"
    /\ UNCHANGED <<concurrency, process, exit_cause, should_stop, wvars,
                   dbvars, mvars, in_base, in_view, out_report, vhvars>>

HarnessCompare ==
    /\ h_pc = "read"
    /\ out_report' = Compare(node_id, out_base, out_view)
    /\ h_pc' = "compared"
    /\ UNCHANGED <<concurrency, process, exit_cause, should_stop, wvars,
                   dbvars, mvars, in_base, in_view, out_base, out_view, vhvars>>

NextRead ==
    \/ HarnessRead
    \/ HarnessCompare

SpecRead == InitRead /\ [][NextRead]_vars

\* ------------------------------------------------------- value harness
\* `let value = id + i * concurrency` of one fiber of the program's 512,
\* iteration after iteration, from i = 0 and from shortly before the first
\* i whose product leaves the i32 range.  Arithmetic that overflows panics
\* in a build with overflow checks and wraps in a build without.
FirstOverflow == (MaxI32 \div ProgramConcurrency) + 1

\* a * b leaves the i32 range, a >= 0 and b > 0
MulOverflows(a, b) == a > MaxI32 \div b

\* a + b leaves the i32 range, a >= 0
AddOverflows(a, b) == b > 0 /\ a > MaxI32 - b

\* the outcome of `id + i * concurrency` in a build with or without
\* overflow checks
ValueOutcome(id, iter, overflow_checks) ==
    IF overflow_checks /\ (\/ MulOverflows(iter, concurrency)
                           \/ AddOverflows(id, WrapMul(iter, concurrency)))
    THEN [kind |-> "panic"]
    ELSE [kind |-> "value", value |-> Value(id, iter)]

InitValue ==
    /\ Quiet
    /\ concurrency = ProgramConcurrency
    /\ faulty = {}
    /\ node_id = 0
    /\ h_pc = "value"
    /\ in_base = <<>>
    /\ in_view = <<>>
    /\ out_base = <<>>
    /\ out_view = <<>>
    /\ out_report = NoReport
    /\ h_id \in 0 .. (ProgramConcurrency - 1)
    /\ h_i \in {0, FirstOverflow - MaxBack}
    /\ h_value = ValueOutcome(h_id, h_i, FALSE)
    /\ h_prev = NoValue

\* the next turn of `for i in 0..`
HarnessNextValue(overflow_checks) ==
    /\ h_pc = "value"
    /\ h_value.kind = "value"
    /\ \/ h_i < MaxBack
       \/ h_i >= FirstOverflow - MaxBack /\ h_i < FirstOverflow + MaxBack
    /\ h_i' = h_i + 1
    /\ h_prev' = h_value
    /\ h_value' = ValueOutcome(h_id, h_i + 1, overflow_checks)
    /\ UNCHANGED <<concurrency, process, exit_cause, should_stop, wvars,
                   dbvars, mvars, h_pc, in_base, in_view, out_base, out_view,
                   out_report, h_id>>

NextValue == \E overflow_checks \in BOOLEAN : HarnessNextValue(overflow_checks)

SpecValue == InitValue /\ [][NextValue]_vars

\* =============================================================== claims
Active == { w \in Workers : pc[w] \in {"tick", "check", "stopped"} }

ExpectedValues(N, K) == { id + k * N : id \in 0 .. (N - 1), k \in 0 .. (K - 1) }

\* C1: whenever every one of the N fibers has completed exactly K
\* iterations, the values written are exactly { id + k*N : id < N, k < K },
\* each by one (fiber, iteration) pair, and the table holds exactly their
\* rows.
C1_ValuesPartition ==
    \A K \in 0 .. MaxIter :
        (\A w \in Workers : w \in Active /\ i[w] = K) =>
            /\ { r.value : r \in issued } = ExpectedValues(concurrency, K)
            /\ \A r1 \in issued : \A r2 \in issued :
                   r1.value = r2.value => r1 = r2
            /\ issued = { [id |-> w, iter |-> k, value |-> w + k * concurrency] :
                            <<w, k>> \in Workers \X (0 .. (K - 1)) }
            /\ BagToSet(table) = { Row(v) : v \in ExpectedValues(concurrency, K) }

C1_Witness ==
    /\ concurrency = MaxWorkers
    /\ \A w \in Workers : w \in Active /\ i[w] = MaxIter
    /\ BagCardinality(table) = MaxWorkers * MaxIter

\* C2: a fiber whose write fails for good has sent exactly 8 attempts for
\* the value, has slept the 64 ms backoff once after each of the first 7
\* failures and not after the 8th, and has ended in the panic: it never
\* moves again.  No fiber ever sends a 9th attempt.
C2_ExactlyEightAttempts ==
    /\ [](\A w \in Workers :
            /\ hist[w].attempts <= 8
            /\ pc[w] = "execute" => hist[w].sleeps = hist[w].attempts - 1
            /\ pc[w] = "sleep" => hist[w].sleeps = hist[w].attempts - 1
            /\ hist[w].slept_ms = 64 * hist[w].sleeps
            /\ pc[w] = "panicked" =>
                   /\ hist[w].attempts = 8
                   /\ hist[w].sleeps = 7
                   /\ try_number[w] = 8)
    /\ [][\A w \in Workers :
            pc[w] = "panicked" =>
                /\ pc'[w] = "panicked"
                /\ i'[w] = i[w]
                /\ hist'[w] = hist[w]]_vars

C2_Witness == \E w \in Workers : pc[w] = "panicked" /\ i[w] = 1

\* C3: once some fiber has failed its 8th attempt, no fiber sends another
\* write attempt and main starts no verification pass.
C3_PanicStopsEverything ==
    [][(\E f \in Workers : pc[f] = "panicked") =>
          /\ \A w \in Workers : ~(pc[w] # "execute" /\ pc'[w] = "execute")
          /\ ~(main_pc # "read_base" /\ main_pc' = "read_base")]_vars

\* C4 as stated: once one tick period has passed since stop(), no fiber has
\* a write attempt that was sent after that.
C4_NoWriteOneTickAfterStop ==
    \A w \in Workers :
        (should_stop /\ pc[w] = "execute") =>
            hist[w].since_stop < frequency_interval

\* C4 amended: after stop() no fiber begins a write.  A fiber sends an
\* attempt after stop() only as a retry, out of its backoff sleep, of the
\* value it was already writing; a fiber at its tick or at the flag goes
\* nowhere but to the flag and to its return.
C4_OnlyRetriesAfterStop ==
    [][should_stop =>
          \A w \in Workers :
              /\ (pc[w] # "execute" /\ pc'[w] = "execute") =>
                     /\ pc[w] = "sleep"
                     /\ value'[w] = value[w]
                     /\ i'[w] = i[w]
              /\ pc[w] \in {"tick", "check", "stopped"} =>
                     /\ pc'[w] \in {"tick", "check", "stopped"}
                     /\ pc[w] = "check" => pc'[w] # "tick"]_vars

C4_Witness ==
    /\ should_stop
    /\ \E w \in Workers : pc[w] = "stopped"
    /\ \E w \in Workers :
          pc[w] = "execute" /\ hist[w].since_stop >= frequency_interval

\* C5: no two distinct fibers ever write the same key: the values two
\* fibers have begun to write, or are writing, are different.
C5_DisjointKeys ==
    /\ \A r1 \in issued : \A r2 \in issued :
           r1.id # r2.id => Key(Row(r1.value)) # Key(Row(r2.value))
    /\ \A a \in Workers : \A b \in Workers :
           (a # b /\ pc[a] \in {"execute", "sleep"}
                  /\ pc[b] \in {"execute", "sleep"}) => value[a] # value[b]

C5_Witness ==
    /\ \A w \in Workers : pc[w] = "execute" /\ i[w] = 1
    /\ concurrency = 2

\* C6: the message says match exactly when the base and the view snapshot
\* have the same length and the same row at every position; otherwise it is
\* a mismatch that names the node and gives both lengths.
SameSequence(B, V) ==
    /\ Len(B) = Len(V)
    /\ \A k \in 1 .. Len(B) : B[k] = V[k]

C6_CheckerVerdict ==
    h_pc = "compared" =>
        /\ out_report.node = node_id
        /\ out_report.kind = "match" <=> SameSequence(out_base, out_view)
        /\ ~SameSequence(out_base, out_view) =>
               /\ out_report.kind = "mismatch"
               /\ out_report.base_len = Len(out_base)
               /\ out_report.view_len = Len(out_view)

C6_Witness ==
    /\ h_pc = "compared"
    /\ out_report.kind = "mismatch"
    /\ out_report.node = 3
    /\ out_report.base_len = 3
    /\ out_report.view_len = 2
    /\ \E k \in 1 .. 3 : out_view = SubSeq(out_base, 1, k - 1) \o SubSeq(out_base, k + 1, 3)

\* C7: the snapshot read_all returns holds exactly the rows the scan
\* delivered, as often as it delivered them, in ascending order of (p, c);
\* two scans delivering the same rows in different orders give the same
\* snapshot and are reported as a match.
Count(s, x) == Cardinality({ k \in 1 .. Len(s) : s[k] = x })

Permutation(s, t) ==
    /\ Len(s) = Len(t)
    /\ \A x \in HarnessRows : Count(s, x) = Count(t, x)

KeyLeq(a, b) == a[1] < b[1] \/ (a[1] = b[1] /\ a[2] <= b[2])

SortedByKey(s) == \A k \in 1 .. (Len(s) - 1) : KeyLeq(s[k], s[k + 1])

C7_Canonical ==
    h_pc # "in" =>
        /\ Permutation(in_base, out_base) /\ SortedByKey(out_base)
        /\ Permutation(in_view, out_view) /\ SortedByKey(out_view)
        /\ Permutation(in_base, in_view) =>
               /\ out_base = out_view
               /\ h_pc = "compared" => out_report.kind = "match"

C7_Witness ==
    /\ h_pc = "compared"
    /\ in_base = <<<<1, 1, 1>>, <<2, 2, 2>>>>
    /\ in_view = <<<<2, 2, 2>>, <<1, 1, 1>>>>
    /\ out_report.kind = "match"

\* C8: whatever attempts were applied, the table holds one row for each key
\* written, with content (v, v, v): every row of a completed or applied
\* write is there once, and no key has two rows.
C8_Idempotent ==
    /\ \A row \in BagToSet(table) :
           /\ CopiesIn(row, table) = 1
           /\ \E r \in issued : row = Row(r.value)
           /\ \A other \in BagToSet(table) : Key(other) = Key(row) => other = row
    /\ \A r \in issued :
           r.iter < i[r.id] => CopiesIn(Row(r.value), table) = 1

C8_Witness ==
    /\ reapplied
    /\ \E w \in Workers : pc[w] = "tick" /\ i[w] = 1 /\ <<w, 0>> \in faulty

\* C9: a mismatch does not stop the verification: after any message, a
\* mismatch included, main is at the next node's read or, after the last
\* node, at the sleep before the next pass, which then can begin; a pass
\* that reaches its end has reported every node once, in order.
FirstNodes(n) == [k \in 1 .. n |-> k - 1]

C9_MismatchContinues ==
    /\ report.kind \in {"match", "mismatch"} =>
           /\ main_pc \in {"read_view", "pass_sleep"}
           /\ exit_cause = "" => process = "running"
           /\ main_pc = "read_view" => node_id = report.node + 1
           /\ main_pc = "pass_sleep" => report.node = NumNodes - 1
    /\ main_pc = "read_view" => reported = FirstNodes(node_id) /\ node_id < NumNodes
    /\ main_pc = "pass_sleep" =>
           /\ reported = FirstNodes(NumNodes)
           /\ process = "running" => ENABLED BeginPass

C9_Witness ==
    /\ main_pc = "pass_sleep"
    /\ report.kind = "mismatch"
    /\ process = "running"

\* C10: a failed snapshot read ends the process at that read: nothing was
\* reported for the node whose read failed or for a later node, and main
\* does nothing more.
C10_ReadFailureFatal ==
    /\ [](exit_cause = "read_failed" =>
            /\ process = "exited"
            /\ main_pc \in {"read_base", "read_view"}
            /\ main_pc = "read_base" => reported = <<>>
            /\ main_pc = "read_view" => reported = FirstNodes(node_id))
    /\ [][exit_cause = "read_failed" => UNCHANGED mvars]_vars

C10_Witness ==
    /\ exit_cause = "read_failed"
    /\ main_pc = "read_view"
    /\ node_id = 2

\* C11: a fiber reads the flag after its tick and before the iteration's
\* first attempt, which it sends only on reading the flag unset; reading the
\* flag set it sends nothing, begins no write and returns, and a returned
\* fiber never ticks, reads the flag or writes again.
C11_StopCheckBeforeWrite ==
    /\ [](\A w \in Workers : pc[w] = "stopped" => should_stop)
    /\ [][\A w \in Workers :
            /\ (pc[w] # "check" /\ pc'[w] = "check") => pc[w] = "tick"
            /\ (pc[w] \notin {"execute", "sleep"} /\ pc'[w] = "execute") =>
                   /\ pc[w] = "check"
                   /\ ~should_stop
                   /\ value'[w] = Value(w, i[w])
            /\ (pc[w] = "check" /\ should_stop /\ pc'[w] # "check") =>
                   /\ pc'[w] = "stopped"
                   /\ issued' = issued
                   /\ table' = table
                   /\ hist'[w] = hist[w]
            /\ pc[w] = "stopped" =>
                   /\ pc'[w] = "stopped"
                   /\ i'[w] = i[w]
                   /\ value'[w] = value[w]
                   /\ try_number'[w] = try_number[w]
                   /\ hist'[w] = hist[w]
                   /\ { r \in issued' : r.id = w } = { r \in issued : r.id = w }]_vars

C11_Witness ==
    /\ should_stop
    /\ \E w \in Workers : pc[w] = "stopped" /\ i[w] = 1
    /\ \E w \in Workers : pc[w] = "execute"

\* C12: stop() is one step of main that is possible whatever the fibers are
\* doing and changes nothing of theirs; after it, timers firing and
\* attempts being answered, every fiber ends up returned or panicked (or
\* the process is gone) and stays so, fibers that were retrying included.
Terminated ==
    \/ process = "exited"
    \/ \A w \in Workers : pc[w] \in {"stopped", "panicked"}

C12_EventualShutdown ==
    /\ []((process = "running" /\ main_pc = "stdin") => ENABLED stop)
    /\ [][(main_pc = "stdin" /\ main_pc' # "stdin") =>
             /\ should_stop'
             /\ main_pc' = "settle"
             /\ UNCHANGED <<wvars, dbvars, process>>]_vars
    /\ (main_pc = "settle") ~> []Terminated

C12_Witness ==
    /\ process = "running"
    /\ main_pc = "settle"
    /\ concurrency = 2
    /\ \A w \in Workers : pc[w] \in {"stopped", "panicked"}
    /\ \E w \in Workers :
          pc[w] = "panicked" /\ hist[w].since_stop = (tries_num - 1) * BackoffMs
    /\ \E w \in Workers : pc[w] = "stopped" /\ i[w] > 0

\* C13: a fiber writes its iterations in order, one attempt at a time: the
\* iterations it has begun are 0 .. i-1 and, while it is writing, i; every
\* earlier attempt of the current value was answered and slept off before
\* the one in flight was sent; i moves on by one, and only when an attempt
\* was answered Ok, so the row of every earlier iteration is in the table
\* when the first attempt for the next one is sent.
IssuedBy(w) == { r.iter : r \in { x \in issued : x.id = w } }

C13_InOrderSerialized ==
    /\ [](\A w \in Workers :
            /\ IssuedBy(w) =
                   (0 .. (i[w] - 1)) \cup
                   (IF pc[w] \in {"execute", "sleep", "panicked"}
                    THEN {i[w]} ELSE {})
            /\ \A r \in issued :
                   (r.id = w /\ r.iter < i[w]) =>
                       /\ r.value = Value(w, r.iter)
                       /\ CopiesIn(Row(r.value), table) = 1
            /\ pc[w] = "execute" => hist[w].attempts = hist[w].sleeps + 1
            /\ pc[w] \in {"sleep", "panicked"} => hist[w].attempts = try_number[w])
    /\ [][\A w \in Workers :
            /\ i'[w] # i[w] =>
                   /\ i'[w] = i[w] + 1
                   /\ pc[w] = "execute" /\ pc'[w] = "tick"
                   /\ CopiesIn(Row(value[w]), table') = 1
            /\ (pc[w] = "check" /\ pc'[w] = "execute") =>
                   /\ issued' = issued \cup
                          {[id |-> w, iter |-> i[w], value |-> Value(w, i[w])]}
                   /\ \A k \in 0 .. (i[w] - 1) :
                          CopiesIn(Row(Value(w, k)), table) = 1]_vars

C13_Witness ==
    /\ concurrency = 2
    /\ \E w \in Workers :
          /\ i[w] = MaxIter
          /\ pc[w] = "tick"
          /\ <<w, MaxIter - 1>> \in faulty
          /\ reapplied
    /\ \E w \in Workers : pc[w] = "execute" /\ i[w] = 1 /\ try_number[w] = 1

\* C14: for every fiber id in 0 .. 511 and every iteration i, the value the
\* code computes is the number id + i*512 and is greater than the value of
\* the iteration before: the computation never overflows.
C14_NoOverflow ==
    h_pc = "value" =>
        /\ h_value.kind = "value"
        /\ (h_value.value - h_id) % ProgramConcurrency = 0
        /\ (h_value.value - h_id) \div ProgramConcurrency = h_i
        /\ h_prev.kind = "value" => h_value.value > h_prev.value

\* The values of C14 are exact and increasing for the iterations below
\* FirstOverflow, whatever the build.
C14_ExactBelowOverflow ==
    (h_pc = "value" /\ h_i < FirstOverflow) => C14_NoOverflow

\* C15: a failed attempt below the cap is retried, after the backoff, with
\* the same value; the attempt answered Ok is the last one for that value:
\* the fiber goes to its next tick with no error raised, and the next
\* attempt it sends carries a value it has not written before.
C15_RetrySameValueUntilOk ==
    /\ [](\A w \in Workers :
            pc[w] \in {"execute", "sleep"} =>
                /\ value[w] = Value(w, i[w])
                /\ try_number[w] \in 1 .. tries_num
                /\ hist[w].attempts = try_number[w])
    /\ [][\A w \in Workers :
            /\ (pc[w] = "sleep" /\ pc'[w] = "execute") =>
                   /\ value'[w] = value[w]
                   /\ i'[w] = i[w]
                   /\ try_number'[w] = try_number[w] + 1
            /\ (pc[w] = "execute" /\ pc'[w] = "sleep") =>
                   /\ try_number[w] < tries_num
                   /\ value'[w] = value[w]
            /\ (pc[w] = "execute" /\ pc'[w] = "tick") =>
                   /\ CopiesIn(Row(value[w]), table') = 1
                   /\ i'[w] = i[w] + 1
                   /\ process' = "running"
                   /\ exit_cause' = ""
            /\ (pc[w] = "check" /\ pc'[w] = "execute") =>
                   \A r \in issued : r.id = w => r.value # value'[w]]_vars

C15_Witness ==
    \E w \in Workers :
        /\ <<w, 0>> \in faulty
        /\ reapplied
        /\ i[w] = 1
        /\ pc[w] = "execute"
        /\ try_number[w] = 1
        /\ value[w] # Value(w, 0)
        /\ process = "running"

\* C16: the flag is false until stop() and true ever after; the one step
\* that changes it is main's stop(), from false to true, and it changes no
\* fiber; no step of a fiber or of the verification changes it; a second
\* store would leave it as the first did.
C16_StopFlagMonotone ==
    /\ [](should_stop <=> main_pc \notin {"start", "stdin"})
    /\ [](StoreStop(StoreStop(should_stop)) = StoreStop(should_stop))
    /\ [](StoreStop(TRUE) = TRUE)
    /\ [][should_stop => should_stop']_vars
    /\ [][should_stop' # should_stop =>
             /\ ~should_stop /\ should_stop'
             /\ main_pc = "stdin" /\ main_pc' = "settle"
             /\ UNCHANGED <<wvars, dbvars>>]_vars

C16_Witness ==
    /\ should_stop
    /\ main_pc = "pass_sleep"
    /\ \E w \in Workers : pc[w] = "stopped" /\ i[w] = 1
    /\ \E w \in Workers : pc[w] = "execute" /\ try_number[w] > 1

\* C17: a pass reads the base table once, before any view, and keeps that
\* snapshot to its end, whatever is written to the table meanwhile; the
\* nodes are handled in the order 0, 1, ..., one message each, and every
\* message is the comparison of that node's view with the pass's snapshot.
ViewReads == UNION { { read_all_rows_from_table(scan) : scan \in Scans(V) } :
                       V \in ViewContents(table) }

C17_OneBaseSnapshotPerPass ==
    /\ [](/\ main_pc = "read_view" =>
                 reported = FirstNodes(node_id) /\ node_id < NumNodes
          /\ main_pc = "pass_sleep" => reported = FirstNodes(NumNodes)
          /\ main_pc = "read_base" => reported = <<>>)
    /\ [][/\ main_pc' = "read_base" =>
                 main_pc \in {"settle", "pass_sleep", "read_base"}
          /\ (main_pc = "read_base" /\ main_pc' # "read_base") =>
                 /\ main_pc' = "read_view"
                 /\ node_id' = 0
                 /\ \E scan \in Scans(table) :
                        base_rows' = read_all_rows_from_table(scan)
          /\ main_pc # "read_base" => base_rows' = base_rows
          /\ reported' # reported =>
                 \/ reported' = <<>> /\ main_pc' = "read_base"
                 \/ /\ main_pc = "read_view"
                    /\ reported' = Append(reported, node_id)
                    /\ node_id' = node_id + 1
                    /\ report'.node = node_id
                    /\ report'.kind \in {"match", "mismatch"}
                    /\ report'.kind = "match" => base_rows \in ViewReads
                    /\ report'.kind = "mismatch" =>
                           /\ report'.base_len = Len(base_rows)
                           /\ \E view_rows \in ViewReads :
                                  /\ view_rows # base_rows
                                  /\ report'.view_len = Len(view_rows)]_vars

C17_Witness ==
    /\ main_pc = "read_view"
    /\ node_id = 2
    /\ report.kind = "match"
    /\ BagCardinality(table) = Len(base_rows) + 1

\* C18: the row carried by every write attempt, and so every row of the
\* base table, has its three columns equal: p = c = r.
AllEqual(row) == row[1] = row[2] /\ row[2] = row[3]

C18_ColumnsEqual ==
    /\ \A w \in Workers :
           pc[w] \in {"execute", "sleep", "panicked"} =>
               AllEqual(Row(value[w])) /\ Row(value[w])[1] = value[w]
    /\ \A r \in issued : AllEqual(Row(r.value))
    /\ \A row \in BagToSet(table) :
           AllEqual(row) /\ \E r \in issued : row[1] = r.value

C18_Witness ==
    /\ BagCardinality(table) >= 2
    /\ \E row \in BagToSet(table) : row[3] > 0
    /\ \E w \in Workers : pc[w] = "execute" /\ value[w] > 0

\* C19: main goes through its stages in one order: the fibers are spawned,
\* then stop() is called, then the wait, then the passes, each a base read
\* followed by the view reads and the sleep before the next pass.  No
\* snapshot is read while the flag is unset, and the fibers are spawned
\* once, before all of it, and never again.
MainOrder ==
    { <<"start", "stdin">>, <<"stdin", "settle">>, <<"settle", "read_base">>,
      <<"read_base", "read_view">>, <<"read_view", "pass_sleep">>,
      <<"pass_sleep", "read_base">> }

C19_OrchestrationOrder ==
    /\ [](main_pc \in {"read_base", "read_view", "pass_sleep"} =>
             /\ should_stop
             /\ \A w \in Workers : pc[w] # "unspawned")
    /\ [](main_pc = "start" =>
             /\ \A w \in Workers : pc[w] = "unspawned"
             /\ table = EmptyBag)
    /\ [][/\ main_pc' # main_pc => <<main_pc, main_pc'>> \in MainOrder
          /\ (base_rows' # base_rows \/ report' # report) => should_stop
          /\ \A w \in Workers :
                 /\ pc[w] # "unspawned" => pc'[w] # "unspawned"
                 /\ (pc[w] = "unspawned" /\ pc'[w] # "unspawned") =>
                        /\ main_pc = "start"
                        /\ pc'[w] = "tick"
                 /\ (pc[w] \in {"stopped", "panicked"}) => pc'[w] = pc[w]]_vars

C19_Witness ==
    /\ main_pc = "read_base"
    /\ report.kind = "verifying"
    /\ Len(base_rows) = 2
    /\ should_stop
    /\ \A w \in Workers : pc[w] = "stopped"
    /\ concurrency = 2

====
